---- MODULE Spec2Model ----
(***************************************************************************)
(* A model of geneticAlgorithm1.py: the operators fitness, select_pair,    *)
(* single_point_crossover and mutation, and the driver run_evolution.      *)
(*                                                                         *)
(* Python lists are objects: run_evolution keeps references to genomes,    *)
(* and mutation writes through them.  The model therefore keeps a heap of  *)
(* genome objects and lets population and next_generation hold references  *)
(* (indexes into the heap).                                                *)
(*                                                                         *)
(* Activity.hours is a float whose values in main() are multiples of 0.25; *)
(* the model counts hours in quarter hours, so 6 hours is 24.              *)
(***************************************************************************)
EXTENDS Integers, Sequences, FiniteSets, TLC

\* Bounds of the model.
MaxLen == 2
MaxPairs == 2
MaxGenerations == 2
MaxCells == 11

VARIABLES
    pc,               \* where run_evolution is: "loop", "breed", "returned", "raised"
    heap,             \* the genome objects: heap[r] is the bit list of object r
    population,       \* the list population, as references
    next_generation,  \* the list next_generation, as references
    i,                \* the generation counter of the for loop
    j,                \* the counter of the breeding loop
    ranked,           \* the bits of population[:2] when the generation was sorted
    activities,       \* fitness_func's bound argument activities
    hours_limit,      \* fitness_func's bound argument hours_limit
    fitness_limit,    \* run_evolution's argument
    generation_limit, \* run_evolution's argument
    size,             \* populate_func's bound argument size
    genome_length,    \* populate_func's bound argument genome_length
    returned_index,   \* the second component of the returned tuple
    error,            \* the exception that left run_evolution, "" if none
    call              \* a single call of an operator outside the driver

vars == <<pc, heap, population, next_generation, i, j, ranked, activities,
          hours_limit, fitness_limit, generation_limit, size, genome_length,
          returned_index, error, call>>

config == <<activities, hours_limit, fitness_limit, generation_limit, size, genome_length>>

run == <<pc, heap, population, next_generation, i, j, ranked, config,
         returned_index, error>>

----------------------------------------------------------------------------
\* The domain data of main(), hours in quarter hours.
Activities ==
    << [importance |-> 8,  hours |-> 6],
       [importance |-> 8,  hours |-> 8],
       [importance |-> 10, hours |-> 2],
       [importance |-> 6,  hours |-> 2],
       [importance |-> 4,  hours |-> 8],
       [importance |-> 3,  hours |-> 6],
       [importance |-> 9,  hours |-> 3],
       [importance |-> 6,  hours |-> 2],
       [importance |-> 2,  hours |-> 4],
       [importance |-> 7,  hours |-> 6] >>

\* The pairs <<hours_limit, fitness_limit>> the driver is run with: a budget of
\* 2 hours with a target of 8, and the 6 hours of main() with a target of 16.
Limits == {<<8, 8>>, <<24, 16>>}

Bit == {0, 1}

\* generate_genome(length): every list of `length` bits.
generate_genome(length) == [1..length -> Bit]

\* generate_population(size, genome_length): size genomes, each its own object.
generate_population(n, length) == [1..n -> generate_genome(length)]

----------------------------------------------------------------------------
\* What a call gives: a value, or an exception.
Return(v) == [raised |-> FALSE, value |-> v]
Raise(v) == [raised |-> TRUE, value |-> v]

\* fitness, had it compared hours with hours_limit once, after the loop.
RECURSIVE fitness_loop_checks_total(_, _, _, _, _, _)
fitness_loop_checks_total(genome, acts, limit, index, hours, total_importance) ==
    IF index > Len(acts) THEN (IF hours > limit THEN 0 ELSE total_importance)
    ELSE LET selected == genome[index] = 1
             h == IF selected THEN hours + acts[index].hours ELSE hours
             t == IF selected THEN total_importance + acts[index].importance
                  ELSE total_importance
         IN  fitness_loop_checks_total(genome, acts, limit, index + 1, h, t)

\* The for loop of fitness from position index on, with the running hours and
\* total_importance; the check hours > hours_limit is made after every position.
RECURSIVE fitness_loop(_, _, _, _, _, _)
fitness_loop(genome, acts, limit, index, hours, total_importance) ==
    IF index > Len(acts) THEN total_importance
    ELSE LET selected == genome[index] = 1
             h == IF selected THEN hours + acts[index].hours ELSE hours
             t == IF selected THEN total_importance + acts[index].importance
                  ELSE total_importance
         IN  IF h > limit THEN 0
             ELSE fitness_loop(genome, acts, limit, index + 1, h, t)

\* fitness, had it scored the positions that genome and activities share
\* (zip) instead of raising.
fitness_truncating(genome, acts, limit) ==
    LET n == IF Len(genome) < Len(acts) THEN Len(genome) ELSE Len(acts)
    IN  Return(fitness_loop(SubSeq(genome, 1, n), SubSeq(acts, 1, n), limit, 1, 0, 0))

fitness(genome, acts, limit) ==
    IF Len(genome) # Len(acts) THEN Raise(0)
    ELSE Return(fitness_loop(genome, acts, limit, 1, 0, 0))

\* fitness_func = partial(fitness, activities=activities, hours_limit=hours_limit)
fitness_func(genome) == fitness(genome, activities, hours_limit)

RECURSIVE SumSeq(_)
SumSeq(s) == IF s = <<>> THEN 0 ELSE s[1] + SumSeq(Tail(s))

\* random.choices(population, weights, k=2), as CPython 3.9 and later define
\* it: ValueError('Total of weights must be greater than zero') if the total
\* is not positive, and otherwise two independent draws, each of an item of
\* positive weight.  (CPython 3.8 and earlier return the last item twice for a
\* total of 0.)
choices(pop, weights) ==
    IF SumSeq(weights) <= 0
    THEN {Raise(<<>>)}
    ELSE {Return(<<pop[a], pop[b]>>) :
            a \in {k \in 1..Len(pop) : weights[k] > 0},
            b \in {k \in 1..Len(pop) : weights[k] > 0}}

\* select_pair(population, fitness_func), on references; h is the heap.
select_pair(pop, h) ==
    LET scores == [k \in 1..Len(pop) |-> fitness_func(h[pop[k]])]
    IN  IF \E k \in 1..Len(pop) : scores[k].raised THEN {Raise(<<>>)}
        ELSE choices(pop, [k \in 1..Len(pop) |-> scores[k].value])

\* randint(1, length - 1), drawn only when length >= 2.
randint(length) == IF length < 2 THEN {0} ELSE 1..(length - 1)

\* single_point_crossover, had it cut at randint(0, length - 2).
single_point_crossover_cut_before(a, b, random_index) ==
    IF Len(a) # Len(b) THEN [raised |-> TRUE, same |-> FALSE, value |-> <<>>]
    ELSE IF Len(a) < 2 THEN [raised |-> FALSE, same |-> TRUE, value |-> <<a, b>>]
    ELSE [raised |-> FALSE, same |-> FALSE,
          value |-> << SubSeq(a, 1, random_index - 1) \o SubSeq(b, random_index, Len(b)),
                       SubSeq(b, 1, random_index - 1) \o SubSeq(a, random_index, Len(a)) >>]

\* single_point_crossover, had it taken the tails from random_index + 1 on.
single_point_crossover_short_tail(a, b, random_index) ==
    IF Len(a) # Len(b) THEN [raised |-> TRUE, same |-> FALSE, value |-> <<>>]
    ELSE IF Len(a) < 2 THEN [raised |-> FALSE, same |-> TRUE, value |-> <<a, b>>]
    ELSE [raised |-> FALSE, same |-> FALSE,
          value |-> << SubSeq(a, 1, random_index) \o SubSeq(b, random_index + 2, Len(b)),
                       SubSeq(b, 1, random_index) \o SubSeq(a, random_index + 2, Len(a)) >>]

\* single_point_crossover(a, b) with the draw random_index.  same tells that
\* the result is the pair of argument objects themselves (return a, b), not
\* new lists.
single_point_crossover(a, b, random_index) ==
    IF Len(a) # Len(b) THEN [raised |-> TRUE, same |-> FALSE, value |-> <<>>]
    ELSE IF Len(a) < 2 THEN [raised |-> FALSE, same |-> TRUE, value |-> <<a, b>>]
    ELSE [raised |-> FALSE, same |-> FALSE,
          value |-> << SubSeq(a, 1, random_index) \o SubSeq(b, random_index + 1, Len(b)),
                       SubSeq(b, 1, random_index) \o SubSeq(a, random_index + 1, Len(a)) >>]

\* randrange(len(genome)): raises on an empty genome.
randrange(length) == 0..(length - 1)

\* One trial of mutation: genome[random_index] is kept if random() > probability
\* and xor-ed with 1 otherwise; flip is the outcome of that draw.
mutation(genome, random_index, flip) ==
    [genome EXCEPT ![random_index + 1] = IF flip THEN 1 - @ ELSE @]

----------------------------------------------------------------------------
\* sorted(population, key=fitness_func, reverse=True): a stable sort, so
\* genomes of equal fitness keep their order.
Insert(s, x, key) ==
    LET p == Cardinality({k \in 1..Len(s) : key[s[k]] >= key[x]})
    IN  SubSeq(s, 1, p) \o <<x>> \o SubSeq(s, p + 1, Len(s))

RECURSIVE sorted_prefix(_, _, _)
sorted_prefix(pop, n, key) ==
    IF n = 0 THEN <<>> ELSE Insert(sorted_prefix(pop, n - 1, key), pop[n], key)

sorted(pop, key) == sorted_prefix(pop, Len(pop), key)

\* Objects that no list refers to are gone, and a reference has no meaning
\* beyond which object it names: the heap is kept as the objects that pop
\* refers to, in the order pop first names them.
RECURSIVE FirstNamed(_, _)
FirstNamed(pop, n) ==
    IF n = 0 THEN <<>>
    ELSE LET before == FirstNamed(pop, n - 1)
         IN  IF \E k \in 1..Len(before) : before[k] = pop[n] THEN before
             ELSE Append(before, pop[n])

Position(order, r) == CHOOSE k \in 1..Len(order) : order[k] = r

Collect(pop, h) ==
    LET order == FirstNamed(pop, Len(pop))
    IN  [heap |-> [k \in 1..Len(order) |-> h[order[k]]],
         population |-> [k \in 1..Len(pop) |-> Position(order, pop[k])]]

Bits(pop, h) == [k \in 1..Len(pop) |-> h[pop[k]]]

----------------------------------------------------------------------------
NoCall == [op |-> "none"]

\* population = populate_func(), with populate_func = partial(generate_population,
\* size, genome_length) and any arguments of run_evolution within the bounds.
InitRun ==
    /\ pc = "loop"
    /\ size \in {2 * p : p \in 1..MaxPairs}
    /\ genome_length \in 0..MaxLen
    /\ size * genome_length <= MaxCells
    /\ heap \in generate_population(size, genome_length)
    /\ population = [k \in 1..size |-> k]
    /\ \E n \in 0..MaxLen : activities = SubSeq(Activities, 1, n)
    /\ \E l \in Limits : hours_limit = l[1] /\ fitness_limit = l[2]
    /\ generation_limit \in 0..MaxGenerations
    /\ next_generation = <<>>
    /\ i = 0
    /\ j = 0
    /\ ranked = <<>>
    /\ returned_index = -1
    /\ error = ""
    /\ call = NoCall

\* An exception leaves run_evolution.
Raised(e) ==
    /\ pc' = "raised"
    /\ error' = e
    /\ UNCHANGED <<heap, population, next_generation, i, j, ranked, config,
                   returned_index, call>>

\* Lines 77-86: one pass of the for loop up to the breeding loop.
Rank ==
    /\ pc = "loop"
    /\ i < generation_limit
    /\ IF \E k \in 1..Len(population) : fitness_func(heap[population[k]]).raised
       THEN Raised("fitness: ValueError")
       ELSE LET key == [r \in 1..Len(heap) |-> fitness_func(heap[r]).value]
                c == Collect(sorted(population, key), heap)
            IN  /\ population' = c.population
                /\ heap' = c.heap
                /\ IF fitness_func(c.heap[c.population[1]]).value >= fitness_limit
                   THEN /\ pc' = "returned"
                        /\ returned_index' = i
                        /\ UNCHANGED <<next_generation, j, ranked>>
                   ELSE /\ pc' = "breed"
                        /\ next_generation' = SubSeq(c.population, 1, 2)
                        /\ j' = 0
                        /\ ranked' = Bits(SubSeq(c.population, 1, 2), c.heap)
                        /\ UNCHANGED returned_index
                /\ UNCHANGED <<i, config, error, call>>

\* The breeding loop, had it run len(population) // 2 times.
iterations_one_more(pop) == Len(pop) \div 2

\* range(len(population) // 2 - 1)
iterations(pop) == (Len(pop) \div 2) - 1

\* Lines 88-91: one pass of the breeding loop.
Breed ==
    /\ pc = "breed"
    /\ j < iterations(population)
    /\ \E parents \in select_pair(population, heap) :
         IF parents.raised THEN Raised("select_pair: ValueError")
         ELSE
           LET a == parents.value[1]
               b == parents.value[2]
           IN  \E split \in randint(Len(heap[a])) :
                 LET x == single_point_crossover(heap[a], heap[b], split)
                 IN  IF x.raised THEN Raised("single_point_crossover: ValueError")
                     ELSE
                       LET heap1 == IF x.same THEN heap ELSE heap \o x.value
                           descendant_a == IF x.same THEN a ELSE Len(heap) + 1
                           descendant_b == IF x.same THEN b ELSE Len(heap) + 2
                       IN  IF randrange(Len(heap1[descendant_a])) = {}
                           THEN Raised("mutation: ValueError")
                           ELSE
                             \E ia \in randrange(Len(heap1[descendant_a])), fa \in BOOLEAN,
                                ib \in randrange(Len(heap1[descendant_b])), fb \in BOOLEAN :
                               LET heap2 == [heap1 EXCEPT ![descendant_a] = mutation(@, ia, fa)]
                                   heap3 == [heap2 EXCEPT ![descendant_b] = mutation(@, ib, fb)]
                               IN  /\ heap' = heap3
                                   /\ next_generation' =
                                        next_generation \o <<descendant_a, descendant_b>>
                                   /\ j' = j + 1
                                   /\ UNCHANGED <<pc, population, i, ranked, config,
                                                  returned_index, error, call>>

\* Line 92 and the step of the for loop: population = next_generation.
Advance ==
    /\ pc = "breed"
    /\ j >= iterations(population)
    /\ LET c == Collect(next_generation, heap)
       IN  /\ population' = c.population
           /\ heap' = c.heap
    /\ next_generation' = <<>>
    /\ i' = i + 1
    /\ j' = 0
    /\ pc' = "loop"
    /\ UNCHANGED <<ranked, config, returned_index, error, call>>

\* Line 94: the for loop is over.
Exhaust ==
    /\ pc = "loop"
    /\ i >= generation_limit
    /\ pc' = "returned"
    /\ returned_index' = generation_limit
    /\ UNCHANGED <<heap, population, next_generation, i, j, ranked, config, error, call>>

----------------------------------------------------------------------------
\* Single calls of the operators, outside the driver.

\* Activities a caller may pass to fitness: two of main(), and one whose hours
\* are negative (hours is any float).
ActivityPool ==
    { [importance |-> 8, hours |-> 6],
      [importance |-> 10, hours |-> 2],
      [importance |-> 3, hours |-> -4] }

HoursLimitPool == {0, 4, 8}

GenomePool == UNION {generate_genome(n) : n \in 0..MaxLen}

ActivitiesPool == UNION {[1..n -> ActivityPool] : n \in 0..MaxLen}

\* No run of the driver is under way.
NoRun ==
    /\ pc = "call"
    /\ heap = <<>>
    /\ population = <<>>
    /\ next_generation = <<>>
    /\ i = 0
    /\ j = 0
    /\ ranked = <<>>
    /\ activities = <<>>
    /\ hours_limit = 0
    /\ fitness_limit = 0
    /\ generation_limit = 0
    /\ size = 0
    /\ genome_length = 0
    /\ returned_index = -1
    /\ error = ""

Pending(op, args) == [op |-> op, args |-> args, done |-> FALSE, result |-> Return(0)]

InitFitness ==
    /\ NoRun
    /\ \E genome \in GenomePool, acts \in ActivitiesPool, limit \in HoursLimitPool :
         call = Pending("fitness",
                        [genome |-> genome, activities |-> acts, hours_limit |-> limit])

InitCrossover ==
    /\ NoRun
    /\ \E a \in GenomePool, b \in GenomePool :
         \E random_index \in randint(Len(a)) :
           call = Pending("single_point_crossover",
                          [a |-> a, b |-> b, random_index |-> random_index])

InitMutation ==
    /\ NoRun
    /\ \E genome \in GenomePool, flip \in BOOLEAN :
         \E random_index \in IF genome = <<>> THEN {0} ELSE randrange(Len(genome)) :
           call = Pending("mutation",
                          [genome |-> genome, random_index |-> random_index, flip |-> flip])

Init == InitRun \/ InitFitness \/ InitCrossover \/ InitMutation

Done(result) ==
    /\ call' = [call EXCEPT !.done = TRUE, !.result = result]
    /\ UNCHANGED run

CallFitness ==
    /\ pc = "call" /\ call.op = "fitness" /\ ~call.done
    /\ Done(fitness(call.args.genome, call.args.activities, call.args.hours_limit))

CallCrossover ==
    /\ pc = "call" /\ call.op = "single_point_crossover" /\ ~call.done
    /\ Done(single_point_crossover(call.args.a, call.args.b, call.args.random_index))

\* mutation(genome) with number_of_mutations = 1: randrange raises on an empty genome.
CallMutation ==
    /\ pc = "call" /\ call.op = "mutation" /\ ~call.done
    /\ IF randrange(Len(call.args.genome)) = {} THEN Done(Raise(<<>>))
       ELSE Done(Return(mutation(call.args.genome, call.args.random_index, call.args.flip)))

Next ==
    \/ Rank
    \/ Breed
    \/ Advance
    \/ Exhaust
    \/ CallFitness
    \/ CallCrossover
    \/ CallMutation

Spec == Init /\ [][Next]_vars

----------------------------------------------------------------------------
\* The properties.

Range(s) == {s[k] : k \in DOMAIN s}

InRun == pc # "call"

Score(genome) == fitness_func(genome).value

\* The greatest fitness over the genomes pop refers to.
BestFitness(pop, h) ==
    CHOOSE m \in {Score(h[r]) : r \in Range(pop)} :
        \A r \in Range(pop) : Score(h[r]) <= m

\* pop is in descending order of fitness.
Descending(pop, h) ==
    \A k \in 1..(Len(pop) - 1) : Score(h[pop[k]]) >= Score(h[pop[k + 1]])

\* C1: the two genomes ranked first and second by the sort of a generation
\* keep their bits through every breeding iteration and are, with those
\* bits, the first two genomes of the next generation.
C1_ElitesSurviveUnchanged ==
    /\ pc = "breed" => Bits(SubSeq(next_generation, 1, 2), heap) = ranked
    /\ (pc = "loop" /\ i >= 1) => Bits(SubSeq(population, 1, 2), heap) = ranked

\* C2: the best fitness of a generation produced by breeding is at least the
\* best fitness of the generation it was bred from.
C2_BestFitnessNeverDrops ==
    (pc = "loop" /\ i >= 1) => BestFitness(population, heap) >= Score(ranked[1])

\* C3: a run on an even population of at least 2 genomes that match the
\* activities ends by returning, never by an exception, after at most
\* generation_limit generations, with 0 <= index <= generation_limit; an index
\* below generation_limit is the generation whose sorted population is
\* returned, and its first genome meets fitness_limit.  (Stated for genomes
\* of at least one bit, leaving the empty genome aside.)
C3_RunReturns ==
    (InRun /\ genome_length = Len(activities) /\ genome_length >= 1) =>
        /\ pc # "raised"
        /\ i <= generation_limit
        /\ pc = "returned" =>
              /\ 0 <= returned_index /\ returned_index <= generation_limit
              /\ returned_index < generation_limit =>
                    /\ returned_index = i
                    /\ Descending(population, heap)
                    /\ Score(heap[population[1]]) >= fitness_limit

\* C4: when the returned index is generation_limit (at least 1), no genome of
\* the returned population meets fitness_limit.
C4_ExhaustedMeansLimitNotMet ==
    (pc = "returned" /\ returned_index = generation_limit /\ generation_limit >= 1) =>
        \A r \in Range(population) : Score(heap[r]) < fitness_limit

\* C5: every generation has size genomes: next_generation holds the 2 elites
\* and 2 children per breeding iteration, the breeding loop runs size/2 - 1
\* times, and the returned population has size genomes.
C5_PopulationSizeConstant ==
    InRun =>
        /\ Len(population) = size
        /\ pc = "breed" =>
              /\ Len(next_generation) = 2 + 2 * j
              /\ j <= (size \div 2) - 1

C5_Witness ==
    /\ pc = "returned"
    /\ size = 4
    /\ returned_index = 2
    /\ Len(population) = 4

\* C6: on a population whose genomes all have fitness 0, select_pair raises
\* nothing and returns two genomes of the population, so the breeding step
\* is not left by select_pair's exception.  (Stated for genomes of at least
\* one bit, leaving the empty genome aside.)
C6_SelectPairAllZero ==
    (InRun /\ genome_length = Len(activities) /\ genome_length >= 1
       /\ \A r \in Range(population) : Score(heap[r]) = 0) =>
        /\ pc = "raised" => error # "select_pair: ValueError"
        /\ pc = "breed" =>
              \A parents \in select_pair(population, heap) :
                  ~parents.raised =>
                      /\ parents.value[1] \in Range(population)
                      /\ parents.value[2] \in Range(population)

\* The hours of the selected activities among the first k.
RECURSIVE PrefixHours(_, _, _)
PrefixHours(genome, acts, k) ==
    IF k = 0 THEN 0
    ELSE PrefixHours(genome, acts, k - 1) + genome[k] * acts[k].hours

\* The importance of the selected activities among the first k.
RECURSIVE PrefixImportance(_, _, _)
PrefixImportance(genome, acts, k) ==
    IF k = 0 THEN 0
    ELSE PrefixImportance(genome, acts, k - 1) + genome[k] * acts[k].importance

FitnessCalled == pc = "call" /\ call.op = "fitness" /\ call.done

\* C7: for a genome and activities of equal length, fitness is 0 if the hours
\* of the selected activities exceed hours_limit at some prefix, whatever
\* follows the prefix, and the importance of all selected activities otherwise.
C7_FitnessInvalidation ==
    (FitnessCalled /\ Len(call.args.genome) = Len(call.args.activities)) =>
        LET genome == call.args.genome
            acts == call.args.activities
            n == Len(acts)
        IN  /\ ~call.result.raised
            /\ call.result.value =
                  IF \E k \in 1..n : PrefixHours(genome, acts, k) > call.args.hours_limit
                  THEN 0
                  ELSE PrefixImportance(genome, acts, n)

\* A genome over the limit at a prefix and within it in total scored 0.
C7_Witness ==
    /\ FitnessCalled
    /\ Len(call.args.genome) = Len(call.args.activities)
    /\ \E k \in 1..Len(call.args.genome) :
          PrefixHours(call.args.genome, call.args.activities, k) > call.args.hours_limit
    /\ PrefixHours(call.args.genome, call.args.activities, Len(call.args.genome))
          <= call.args.hours_limit
    /\ PrefixImportance(call.args.genome, call.args.activities, Len(call.args.genome)) > 0
    /\ call.result = Return(0)

\* a up to position s, b after it.
Splice(a, b, s) == [k \in 1..Len(a) |-> IF k <= s THEN a[k] ELSE b[k]]

CrossoverCalled == pc = "call" /\ call.op = "single_point_crossover" /\ call.done

\* C8: for parents a, b of equal length n, single_point_crossover returns
\* (a, b) themselves if n < 2, and for n >= 2 the pair (a[0:s]+b[s:],
\* b[0:s]+a[s:]) for a split 1 <= s <= n-1: both offspring have length n and
\* at every position one offspring has a's bit and the other b's.
C8_CrossoverSplices ==
    (CrossoverCalled /\ Len(call.args.a) = Len(call.args.b)) =>
        LET a == call.args.a
            b == call.args.b
            n == Len(a)
            r == call.result
        IN  /\ ~r.raised
            /\ n < 2 => r.same /\ r.value = <<a, b>>
            /\ n >= 2 =>
                  /\ ~r.same
                  /\ \E s \in 1..(n - 1) :
                        r.value = <<Splice(a, b, s), Splice(b, a, s)>>
                  /\ Len(r.value[1]) = n /\ Len(r.value[2]) = n
                  /\ \A k \in 1..n :
                        \/ r.value[1][k] = a[k] /\ r.value[2][k] = b[k]
                        \/ r.value[1][k] = b[k] /\ r.value[2][k] = a[k]

\* Two parents that differ on both sides of the split were crossed.
C8_Witness ==
    /\ CrossoverCalled
    /\ call.args.a = <<1, 0>>
    /\ call.args.b = <<0, 1>>
    /\ call.result.value = << <<1, 1>>, <<0, 0>> >>

\* C9: fitness raises when the genome and the activities differ in length,
\* single_point_crossover raises when its parents differ in length, and a run
\* whose genomes do not match the activities ends with fitness's exception at
\* its first evaluation: it returns nothing unless generation_limit is 0 and
\* nothing was evaluated.
C9_LengthMismatchRaises ==
    /\ (FitnessCalled /\ Len(call.args.genome) # Len(call.args.activities)) =>
           call.result.raised
    /\ (CrossoverCalled /\ Len(call.args.a) # Len(call.args.b)) =>
           call.result.raised /\ call.result.value = <<>>
    /\ (InRun /\ genome_length # Len(activities)) =>
           /\ pc \in {"loop", "raised", "returned"}
           /\ i = 0
           /\ pc = "raised" => error = "fitness: ValueError"
           /\ pc = "returned" => generation_limit = 0
           /\ generation_limit > 0 => returned_index = -1

\* A run was left by fitness's exception.
C9_Witness ==
    /\ pc = "raised"
    /\ error = "fitness: ValueError"
    /\ genome_length # Len(activities)
    /\ returned_index = -1

MutationCalled == pc = "call" /\ call.op = "mutation" /\ call.done

\* C10: every genome of every generation of a run has the genome_length of
\* the initial population and holds only bits; mutation returns a genome as
\* long as its argument and single_point_crossover offspring as long as the
\* parents.
C10_GenomeLengthUniform ==
    /\ InRun =>
          \A r \in Range(population) \cup Range(next_generation) :
              /\ Len(heap[r]) = genome_length
              /\ \A k \in 1..Len(heap[r]) : heap[r][k] \in Bit
    /\ (MutationCalled /\ ~call.result.raised) =>
          Len(call.result.value) = Len(call.args.genome)
    /\ (CrossoverCalled /\ ~call.result.raised) =>
          /\ Len(call.result.value[1]) = Len(call.args.a)
          /\ Len(call.result.value[2]) = Len(call.args.a)

\* A generation of children of two bits each was bred and became the population.
C10_Witness ==
    /\ pc = "loop"
    /\ i = 2
    /\ size = 4
    /\ genome_length = 2
    /\ Len(heap) = 4

====
